---------------------------- MODULE Spec2Model ----------------------------
(***************************************************************************)
(* A model of the alignment engine of yunik1004/english1999:               *)
(*   scripts/align_whisper.py  (greedy backend: align, fix_overlaps,       *)
(*                              auto_fill_gaps, main)                      *)
(*   scripts/llm_align.py      (delegated backend: align_with_llm)         *)
(*                                                                         *)
(* Conventions.                                                            *)
(*  - A string is a sequence of one-character strings; "SP" stands for a   *)
(*    blank and "EMDASH" for the em dash U+2014.                           *)
(*  - Python list indices are 0-based and are kept 0-based in every index  *)
(*    the program stores (cursor, word_start_idx, ...); a TLA+ sequence is *)
(*    read at index + 1.                                                   *)
(*  - A time is an integer number of ticks, Sec ticks to the second.  The  *)
(*    inputs are whole seconds and Sec is divisible by every run length,   *)
(*    so the divisions of the interpolator are exact.                      *)
(*  - A score is the exact fraction [num, den] of the float the program    *)
(*    computes.                                                            *)
(***************************************************************************)
EXTENDS Integers, Sequences, FiniteSets, TLC

VARIABLES
    pc,           \* position of the run
    args,         \* main(): the command line and what it finds on disk
    words,        \* the token stream (main.words, align.words)
    dialogue,     \* the reference lines
    results,      \* align(): List[AlignedSegment]
    cursor,       \* align(): pass-1 cursor
    idx,          \* loop index of the running loop (0-based)
    gaps_to_fill, \* auto_fill_gaps(): the confirmed gaps
    improved,     \* auto_fill_gaps(): the patched copy of words
    patch_words,  \* auto_fill_gaps(): what the transcriber returned for a gap
    output,       \* main(): what was written to args.output
    saved_cache,  \* main(): what was written to args.whisper_cache
    prompt,       \* align_with_llm(): the prompt of the running batch
    mapping,      \* align_with_llm(): what the collaborator answered to it
    call,         \* a helper called on its own: its name and its arguments
    ret           \* what the helper returned

vars == <<pc, args, words, dialogue, results, cursor, idx, gaps_to_fill, improved,
         patch_words,
         output, saved_cache, prompt, mapping, call, ret>>

mainVars == <<args, output, saved_cache>>
gapVars == <<gaps_to_fill, improved, patch_words>>
llmVars == <<prompt, mapping>>
fnVars == <<call, ret>>

-----------------------------------------------------------------------------
(* Bounds of the model *)

MaxTokens == 4
MaxLines == 2
MaxGapTokens == 3
MaxGapLines == 5

\* align_whisper.py:495 sets SEARCH_WINDOW = 3000; the model scales the
\* window down to one that still spans more than MaxWordsInGap tokens
\* between two matched lines.
SEARCH_WINDOW == 8

-----------------------------------------------------------------------------
(* Arithmetic helpers *)

Max(a, b) == IF a >= b THEN a ELSE b
Min(a, b) == IF a <= b THEN a ELSE b

MinOfSet(S) == CHOOSE x \in S : \A y \in S : x <= y

RECURSIVE Fact(_)
Fact(n) == IF n <= 1 THEN 1 ELSE n * Fact(n - 1)

RECURSIVE Gcd(_, _)
Gcd(a, b) == IF b = 0 THEN a ELSE Gcd(b, a % b)

\* ticks per second
Sec == 100 * Fact(Max(MaxLines, MaxGapLines) + 1)

\* the exact value of a float score, in lowest terms
Frac(n, d) == IF n = 0 THEN [num |-> 0, den |-> 1]
              ELSE [num |-> n \div Gcd(n, d), den |-> d \div Gcd(n, d)]

FracGT(a, b) == a.num * b.den > b.num * a.den
FracGE(a, b) == a.num * b.den >= b.num * a.den

-----------------------------------------------------------------------------
(* normalize_word, normalize_text *)

Lower(c) ==
    CASE c = "H" -> "h"
      [] c = "Y" -> "y"
      [] OTHER -> c

\* [a-z0-9'] over the alphabet of the model
Kept == {"a", "e", "h", "l", "o", "r", "t", "u", "w", "y", "2", "'"}

RECURSIVE FilterKept(_)
FilterKept(w) ==
    IF w = <<>> THEN <<>>
    ELSE IF Head(w) \in Kept THEN <<Head(w)>> \o FilterKept(Tail(w))
         ELSE FilterKept(Tail(w))

RECURSIVE LStrip(_)
LStrip(w) == IF w # <<>> /\ Head(w) = "'" THEN LStrip(Tail(w)) ELSE w

RECURSIVE RStrip(_)
RStrip(w) ==
    IF w # <<>> /\ w[Len(w)] = "'" THEN RStrip(SubSeq(w, 1, Len(w) - 1)) ELSE w

\* mutant: one apostrophe is stripped from each end
NormalizeWordStripOne(w) ==
    LET lowered == [k \in 1..Len(w) |-> Lower(w[k])]
        kept == FilterKept(lowered)
        left == IF kept # <<>> /\ Head(kept) = "'" THEN Tail(kept) ELSE kept
    IN IF left # <<>> /\ left[Len(left)] = "'"
       THEN SubSeq(left, 1, Len(left) - 1) ELSE left

NormalizeWord(w) ==
    LET lowered == [k \in 1..Len(w) |-> Lower(w[k])]
    IN RStrip(LStrip(FilterKept(lowered)))

\* the characters normalize_text replaces by a blank
Smart == {"EMDASH", "ELLIPSIS"}

\* str.split(): the maximal runs of non-blank characters
RECURSIVE SplitFrom(_, _, _)
SplitFrom(text, k, cur) ==
    IF k > Len(text) THEN (IF cur = <<>> THEN <<>> ELSE <<cur>>)
    ELSE IF text[k] = "SP"
         THEN (IF cur = <<>> THEN <<>> ELSE <<cur>>) \o SplitFrom(text, k + 1, <<>>)
         ELSE SplitFrom(text, k + 1, Append(cur, text[k]))

Split(text) == SplitFrom(text, 1, <<>>)

RECURSIVE NormalizeEach(_)
NormalizeEach(ws) ==
    IF ws = <<>> THEN <<>>
    ELSE LET n == NormalizeWord(Head(ws))
         IN IF n # <<>> THEN <<n>> \o NormalizeEach(Tail(ws))
            ELSE NormalizeEach(Tail(ws))

NormalizeText(text) ==
    LET spaced == [k \in 1..Len(text) |-> IF text[k] \in Smart THEN "SP" ELSE text[k]]
    IN NormalizeEach(Split(spaced))

-----------------------------------------------------------------------------
(* word_match_score *)

\* rapidfuzz Levenshtein.distance with unit weights
RECURSIVE Levenshtein(_, _)
Levenshtein(a, b) ==
    IF a = <<>> THEN Len(b)
    ELSE IF b = <<>> THEN Len(a)
    ELSE IF Head(a) = Head(b) THEN Levenshtein(Tail(a), Tail(b))
    ELSE 1 + Min(Levenshtein(Tail(a), Tail(b)),
                 Min(Levenshtein(Tail(a), b), Levenshtein(a, Tail(b))))

SimNum == 8
SimDen == 10

\* Levenshtein.normalized_similarity(r, h) >= 0.8,
\* where the similarity is 1 - distance / max(len(r), len(h))
Similar(r, h) ==
    LET m == Max(Len(r), Len(h))
    IN IF m = 0 THEN TRUE
       ELSE SimDen * (m - Levenshtein(r, h)) >= SimNum * m

\* the normalized words of the model's inputs, and Similar over them,
\* evaluated once
hello == <<"h", "e", "l", "l", "o">>
hallo == <<"h", "a", "l", "l", "o">>
hallu == <<"h", "a", "l", "l", "u">>
you == <<"y", "o", "u">>
there == <<"t", "h", "e", "r", "e">>
how == <<"h", "o", "w">>
are == <<"a", "r", "e">>
NormWords == {hello, hallo, hallu, you, there, how, are}
SimilarMemo == [r \in NormWords, h \in NormWords |-> Similar(r, h)]

\* mutant: a claimed hypothesis word stays available
RECURSIVE CountMatchesReuse(_, _, _, _)
CountMatchesReuse(ref, hyp, k, used) ==
    IF k > Len(ref) THEN 0
    ELSE LET cand == {j \in 1..Len(hyp) : SimilarMemo[ref[k], hyp[j]]}
         IN IF cand = {} THEN CountMatchesReuse(ref, hyp, k + 1, used)
            ELSE 1 + CountMatchesReuse(ref, hyp, k + 1, used)

\* the loop over ref: each reference word claims the first unclaimed
\* hypothesis word that is similar to it
RECURSIVE CountMatches(_, _, _, _)
CountMatches(ref, hyp, k, used) ==
    IF k > Len(ref) THEN 0
    ELSE LET cand == {j \in 1..Len(hyp) : j \notin used /\ SimilarMemo[ref[k], hyp[j]]}
         IN IF cand = {} THEN CountMatches(ref, hyp, k + 1, used)
            ELSE 1 + CountMatches(ref, hyp, k + 1, used \cup {MinOfSet(cand)})

\* 2pr/(p+r) with p = m/|hyp| and r = m/|ref| is 2m/(|ref|+|hyp|)
WordMatchScore(ref, hyp) ==
    IF ref = <<>> \/ hyp = <<>> THEN Frac(0, 1)
    ELSE LET m == CountMatches(ref, hyp, 1, {})
         IN Frac(2 * m, Len(ref) + Len(hyp))

-----------------------------------------------------------------------------
(* _best_match_in_range *)

MatchNum == 35
MatchDen == 100

\* mutant: a score equal to the threshold is rejected
AtThresholdStrict(score) == score.num * MatchDen > MatchNum * score.den

\* best_score >= MATCH_THRESHOLD, MATCH_THRESHOLD = 0.35
AtThreshold(score) == score.num * MatchDen >= MatchNum * score.den

\* words[j + k].text for k in range(n)
Hyp(ws, j, n) == [k \in 1..n |-> ws[j + k].text]

\* the positions range(start, max(start + 1, end - n + 1)) visits before the
\* break at j + n > len(words)
ScanStop(ws, n, start, end) == Max(start + 1, end - n + 1)

\* mutant: a later position of the same score replaces the best one
RECURSIVE ScanRangeLast(_, _, _, _, _)
ScanRangeLast(ref, ws, j, stop, best) ==
    IF j >= stop \/ j + Len(ref) > Len(ws) THEN best
    ELSE LET score == WordMatchScore(ref, Hyp(ws, j, Len(ref)))
         IN IF FracGE(score, best.score)
            THEN ScanRangeLast(ref, ws, j + 1, stop, [score |-> score, start |-> j])
            ELSE ScanRangeLast(ref, ws, j + 1, stop, best)

\* the for loop from position j on, with the best seen so far
RECURSIVE ScanRange(_, _, _, _, _)
ScanRange(ref, ws, j, stop, best) ==
    IF j >= stop \/ j + Len(ref) > Len(ws) THEN best
    ELSE LET score == WordMatchScore(ref, Hyp(ws, j, Len(ref)))
         IN IF FracGT(score, best.score)
            THEN ScanRange(ref, ws, j + 1, stop, [score |-> score, start |-> j])
            ELSE ScanRange(ref, ws, j + 1, stop, best)

BestMatchInRange(ref, ws, start, end) ==
    ScanRange(ref, ws, start, ScanStop(ws, Len(ref), start, end),
              [score |-> Frac(0, 1), start |-> start])

-----------------------------------------------------------------------------
(* align: pass 1 *)

\* mutant: an unmatched line loses its speaker
UnmatchedNoSpeaker(seg, score) ==
    [text |-> seg.text, speaker |-> <<>>, translation |-> seg.translation,
     start |-> seg.startTime, end |-> seg.endTime,
     matched |-> FALSE, score |-> score,
     word_start_idx |-> -1, word_end_idx |-> -1]

Unmatched(seg, score) ==
    [text |-> seg.text, speaker |-> seg.speaker, translation |-> seg.translation,
     start |-> seg.startTime, end |-> seg.endTime,
     matched |-> FALSE, score |-> score,
     word_start_idx |-> -1, word_end_idx |-> -1]

\* mutant: a matched line ends with its first token
MatchedFirstToken(seg, ws, best_start, best_end, score) ==
    [text |-> seg.text, speaker |-> seg.speaker, translation |-> seg.translation,
     start |-> ws[best_start + 1].start, end |-> ws[best_start + 1].end,
     matched |-> TRUE, score |-> score,
     word_start_idx |-> best_start, word_end_idx |-> best_end]

Matched(seg, ws, best_start, best_end, score) ==
    [text |-> seg.text, speaker |-> seg.speaker, translation |-> seg.translation,
     start |-> ws[best_start + 1].start, end |-> ws[best_end + 1].end,
     matched |-> TRUE, score |-> score,
     word_start_idx |-> best_start, word_end_idx |-> best_end]

\* what one iteration of the pass-1 loop appends for line seg
Pass1Result(seg, ws, cur) ==
    LET ref_words == NormalizeText(seg.text)
        n == Len(ref_words)
        search_end == Min(cur + SEARCH_WINDOW, Len(ws))
        best == BestMatchInRange(ref_words, ws, cur, search_end)
    IN IF n = 0 THEN Unmatched(seg, Frac(0, 1))
       ELSE IF AtThreshold(best.score)
            THEN Matched(seg, ws, best.start, best.start + n - 1, best.score)
            ELSE Unmatched(seg, best.score)

\* the position after iteration idx of a loop over the lines
AfterLoop(next, exit) ==
    IF idx + 1 < Len(dialogue) THEN /\ pc' = pc
                                    /\ idx' = idx + 1
    ELSE /\ pc' = exit
         /\ idx' = 0

\* mutant: the cursor moves one past the first token of a committed span
Pass1StepToSecondToken ==
    /\ pc = "pass1"
    /\ idx < Len(dialogue)
    /\ LET r == Pass1Result(dialogue[idx + 1], words, cursor)
       IN /\ results' = Append(results, r)
          /\ cursor' = IF r.matched THEN r.word_start_idx + 1 ELSE cursor
    /\ AfterLoop("pass1", "pass2")
    /\ UNCHANGED <<words, dialogue, mainVars, gapVars, llmVars, fnVars>>

Pass1Step ==
    /\ pc = "pass1"
    /\ idx < Len(dialogue)
    /\ LET r == Pass1Result(dialogue[idx + 1], words, cursor)
       IN /\ results' = Append(results, r)
          /\ cursor' = IF r.matched THEN r.word_end_idx + 1 ELSE cursor
    /\ AfterLoop("pass1", "pass2")
    /\ UNCHANGED <<words, dialogue, mainVars, gapVars, llmVars, fnVars>>

-----------------------------------------------------------------------------
(* align: pass 2 *)

\* mutant: the region of pass 2 starts on the last token of the line before
PrevWordEndReuse(res, i) ==
    LET before == {j \in 0..(i - 1) : res[j + 1].matched}
    IN IF before = {} THEN 0
       ELSE res[(CHOOSE j \in before : \A k \in before : k <= j) + 1].word_end_idx

\* for j in range(i - 1, -1, -1): the nearest matched line before i
PrevWordEnd(res, i) ==
    LET before == {j \in 0..(i - 1) : res[j + 1].matched}
    IN IF before = {} THEN 0
       ELSE res[(CHOOSE j \in before : \A k \in before : k <= j) + 1].word_end_idx + 1

\* mutant: the region of pass 2 always runs to the end of the stream
NextWordStartToEnd(res, ws, i) == Len(ws)

\* for j in range(i + 1, n_segs): the nearest matched line after i
NextWordStart(res, ws, i) ==
    LET after == {j \in (i + 1)..(Len(res) - 1) : res[j + 1].matched}
    IN IF after = {} THEN Len(ws)
       ELSE res[MinOfSet(after) + 1].word_start_idx

\* mutant: pass 2 commits a line and keeps its word_end_idx
Pass2ResultKeepEnd(res, ws, i) ==
    LET r == res[i + 1]
        ref_words == NormalizeText(r.text)
        n == Len(ref_words)
        prev_word_end == PrevWordEnd(res, i)
        next_word_start == NextWordStart(res, ws, i)
        best == BestMatchInRange(ref_words, ws, prev_word_end, next_word_start)
    IN IF r.matched \/ n = 0 THEN r
       ELSE IF prev_word_end >= next_word_start THEN r
       ELSE IF AtThreshold(best.score) /\ best.start + n <= Len(ws)
            THEN [r EXCEPT !.start = ws[best.start + 1].start,
                           !.end = ws[best.start + n].end,
                           !.matched = TRUE,
                           !.score = best.score,
                           !.word_start_idx = best.start]
            ELSE r

Pass2Result(res, ws, i) ==
    LET r == res[i + 1]
        ref_words == NormalizeText(r.text)
        n == Len(ref_words)
        prev_word_end == PrevWordEnd(res, i)
        next_word_start == NextWordStart(res, ws, i)
        best == BestMatchInRange(ref_words, ws, prev_word_end, next_word_start)
    IN IF r.matched \/ n = 0 THEN r
       ELSE IF prev_word_end >= next_word_start THEN r
       ELSE IF AtThreshold(best.score) /\ best.start + n <= Len(ws)
            THEN [r EXCEPT !.start = ws[best.start + 1].start,
                           !.end = ws[best.start + n].end,
                           !.matched = TRUE,
                           !.score = best.score,
                           !.word_start_idx = best.start,
                           !.word_end_idx = best.start + n - 1]
            ELSE r

Pass2Step ==
    /\ pc = "pass2"
    /\ idx < Len(results)
    /\ results' = [results EXCEPT ![idx + 1] = Pass2Result(results, words, idx)]
    /\ AfterLoop("pass2", "pass3")
    /\ UNCHANGED <<words, dialogue, cursor, mainVars, gapVars, llmVars, fnVars>>

-----------------------------------------------------------------------------
(* align: pass 3, _interpolate_unmatched *)

\* the exclusive end of the run of unmatched lines that starts at i
RECURSIVE RunEnd(_, _)
RunEnd(res, i) ==
    IF i < Len(res) /\ ~res[i + 1].matched THEN RunEnd(res, i + 1) ELSE i

\* mutant: a run is spread up to the end of the matched line after it
InterpolateRunToEnd(res, run_start, run_end) ==
    LET n == Len(res)
        t_before == IF run_start > 0 THEN res[run_start].end ELSE 0
        t_after == IF run_end < n THEN res[run_end + 1].end
                   ELSE res[run_end].end + 2 * Sec * (run_end - run_start)
        gap == t_after - t_before
        seg_dur == gap \div (run_end - run_start)
    IN [k \in 1..n |->
          IF run_start <= k - 1 /\ k - 1 < run_end
          THEN [res[k] EXCEPT !.start = t_before + (k - 1 - run_start) * seg_dur,
                              !.end = t_before + (k - run_start) * seg_dur]
          ELSE res[k]]

\* mutant: a run of k lines is given k of k + 1 equal parts of its region
InterpolateRunShort(res, run_start, run_end) ==
    LET n == Len(res)
        t_before == IF run_start > 0 THEN res[run_start].end ELSE 0
        t_after == IF run_end < n THEN res[run_end + 1].start
                   ELSE res[run_end].end + 2 * Sec * (run_end - run_start)
        gap == t_after - t_before
        seg_dur == gap \div (run_end - run_start + 1)
    IN [k \in 1..n |->
          IF run_start <= k - 1 /\ k - 1 < run_end
          THEN [res[k] EXCEPT !.start = t_before + (k - 1 - run_start) * seg_dur,
                              !.end = t_before + (k - run_start) * seg_dur]
          ELSE res[k]]

InterpolateRun(res, run_start, run_end) ==
    LET n == Len(res)
        t_before == IF run_start > 0 THEN res[run_start].end ELSE 0
        t_after == IF run_end < n THEN res[run_end + 1].start
                   ELSE res[run_end].end + 2 * Sec * (run_end - run_start)
        gap == t_after - t_before
        seg_dur == gap \div (run_end - run_start)
    IN [k \in 1..n |->
          IF run_start <= k - 1 /\ k - 1 < run_end
          THEN [res[k] EXCEPT !.start = t_before + (k - 1 - run_start) * seg_dur,
                              !.end = t_before + (k - run_start) * seg_dur]
          ELSE res[k]]

\* the while loop from position i on
RECURSIVE InterpolateFrom(_, _)
InterpolateFrom(res, i) ==
    IF i >= Len(res) THEN res
    ELSE IF res[i + 1].matched THEN InterpolateFrom(res, i + 1)
    ELSE InterpolateFrom(InterpolateRun(res, i, RunEnd(res, i)), RunEnd(res, i))

InterpolateUnmatched(res) == InterpolateFrom(res, 0)

\* pass 3 and the rest of align(): the summary line divides by n_segs
Pass3 ==
    /\ pc = "pass3"
    /\ results' = InterpolateUnmatched(results)
    /\ pc' = IF Len(results) = 0 THEN "raised" ELSE "aligned"
    /\ UNCHANGED <<words, dialogue, cursor, idx, mainVars, gapVars, llmVars, fnVars>>

-----------------------------------------------------------------------------
(* fix_overlaps *)

Clearance == Sec \div 20     \* 0.05 s

\* mutant: the end is moved to 0.05 s before the next line, whatever the start
RECURSIVE FixFromNoFloor(_, _)
FixFromNoFloor(segs, i) ==
    IF i >= Len(segs) - 1 THEN segs
    ELSE IF /\ segs[i + 1].matched
            /\ segs[i + 2].matched
            /\ segs[i + 1].end > segs[i + 2].start
         THEN FixFromNoFloor([segs EXCEPT ![i + 1].end = segs[i + 2].start - Clearance],
                             i + 1)
         ELSE FixFromNoFloor(segs, i + 1)

RECURSIVE FixFrom(_, _)
FixFrom(segs, i) ==
    IF i >= Len(segs) - 1 THEN segs
    ELSE IF /\ segs[i + 1].matched
            /\ segs[i + 2].matched
            /\ segs[i + 1].end > segs[i + 2].start
         THEN FixFrom([segs EXCEPT ![i + 1].end =
                          Max(segs[i + 1].start, segs[i + 2].start - Clearance)],
                      i + 1)
         ELSE FixFrom(segs, i + 1)

FixOverlapsOf(segs) == FixFrom(segs, 0)

FixOverlaps ==
    /\ pc = "aligned"
    /\ results' = FixOverlapsOf(results)
    /\ pc' = "fixed"
    /\ UNCHANGED <<words, dialogue, cursor, idx, mainVars, gapVars, llmVars, fnVars>>

-----------------------------------------------------------------------------
(* _quick_greedy_align *)

\* align_whisper.py:262, the probe's own SEARCH_WINDOW = 3000: the value of
\* line 495
QUICK_SEARCH_WINDOW == SEARCH_WINDOW

\* the for loop of lines 284-291 from position j on
RECURSIVE QuickScan(_, _, _, _, _)
QuickScan(ref, ws, j, stop, best) ==
    IF j >= stop \/ j + Len(ref) > Len(ws) THEN best
    ELSE LET score == WordMatchScore(ref, Hyp(ws, j, Len(ref)))
         IN IF FracGT(score, best.score)
            THEN QuickScan(ref, ws, j + 1, stop, [score |-> score, start |-> j])
            ELSE QuickScan(ref, ws, j + 1, stop, best)

QuickUnmatched(seg, score) ==
    [text |-> seg.text, speaker |-> seg.speaker, translation |-> seg.translation,
     start |-> 0, end |-> 0,
     matched |-> FALSE, score |-> score,
     word_start_idx |-> -1, word_end_idx |-> -1]

\* mutant: the probe searches one token less than pass 1
QuickResultShort(seg, ws, cur) ==
    LET ref_words == NormalizeText(seg.text)
        n == Len(ref_words)
        search_end == Min(cur + QUICK_SEARCH_WINDOW - 1, Len(ws))
        best == QuickScan(ref_words, ws, cur, Max(cur + 1, search_end - n + 1),
                          [score |-> Frac(0, 1), start |-> cur])
    IN IF n = 0 THEN QuickUnmatched(seg, Frac(0, 1))
       ELSE IF AtThreshold(best.score)
            THEN Matched(seg, ws, best.start, best.start + n - 1, best.score)
            ELSE QuickUnmatched(seg, best.score)

QuickResult(seg, ws, cur) ==
    LET ref_words == NormalizeText(seg.text)
        n == Len(ref_words)
        search_end == Min(cur + QUICK_SEARCH_WINDOW, Len(ws))
        best == QuickScan(ref_words, ws, cur, Max(cur + 1, search_end - n + 1),
                          [score |-> Frac(0, 1), start |-> cur])
    IN IF n = 0 THEN QuickUnmatched(seg, Frac(0, 1))
       ELSE IF AtThreshold(best.score)
            THEN Matched(seg, ws, best.start, best.start + n - 1, best.score)
            ELSE QuickUnmatched(seg, best.score)

RECURSIVE QuickFrom(_, _, _, _)
QuickFrom(ws, dlg, k, cur) ==
    IF k > Len(dlg) THEN <<>>
    ELSE LET r == QuickResult(dlg[k], ws, cur)
         IN <<r>> \o QuickFrom(ws, dlg, k + 1,
                               IF r.matched THEN r.word_end_idx + 1 ELSE cur)

QuickGreedyAlign(ws, dlg) == QuickFrom(ws, dlg, 1, 0)

-----------------------------------------------------------------------------
(* auto_fill_gaps: step 2, the confirmed gaps *)

MaxWordsInGap == 5

\* while i < n and not prelim[i].matched: i += 1
RECURSIVE GapRunEnd(_, _)
GapRunEnd(prelim, i) ==
    IF i < Len(prelim) /\ ~prelim[i + 1].matched THEN GapRunEnd(prelim, i + 1) ELSE i

\* the anchors of the run [run_start, run_end); <<>> stands for None
TBefore(prelim, run_start) ==
    LET before == {j \in 0..(run_start - 1) : prelim[j + 1].matched}
    IN IF before = {} THEN <<>>
       ELSE <<prelim[(CHOOSE j \in before : \A k \in before : k <= j) + 1].end>>

TAfter(prelim, run_end) ==
    LET after == {j \in run_end..(Len(prelim) - 1) : prelim[j + 1].matched}
    IN IF after = {} THEN <<>>
       ELSE <<prelim[MinOfSet(after) + 1].start>>

\* mutant: a token that starts at t_before or ends at t_after is not counted
WordsInGapOpen(ws, t_before, t_after) ==
    Cardinality({k \in 1..Len(ws) : ws[k].start > t_before /\ ws[k].end < t_after})

WordsInGap(ws, t_before, t_after) ==
    Cardinality({k \in 1..Len(ws) : ws[k].start >= t_before /\ ws[k].end <= t_after})

\* what the run [run_start, run_end) adds to gaps_to_fill
GapOfRun(prelim, ws, dlg, threshold, run_start, run_end) ==
    LET tb == TBefore(prelim, run_start)
        ta == TAfter(prelim, run_end)
    IN IF tb = <<>> \/ ta = <<>> THEN <<>>
       ELSE IF ta[1] - tb[1] < threshold THEN <<>>
       ELSE IF WordsInGap(ws, tb[1], ta[1]) > MaxWordsInGap THEN <<>>
       ELSE <<[gap_start |-> tb[1], gap_end |-> ta[1],
               texts |-> [j \in 1..(run_end - run_start) |-> dlg[run_start + j].text]]>>

RECURSIVE GapsFrom(_, _, _, _, _)
GapsFrom(prelim, ws, dlg, threshold, i) ==
    IF i >= Len(dlg) THEN <<>>
    ELSE IF prelim[i + 1].matched THEN GapsFrom(prelim, ws, dlg, threshold, i + 1)
    ELSE GapOfRun(prelim, ws, dlg, threshold, i, GapRunEnd(prelim, i))
         \o GapsFrom(prelim, ws, dlg, threshold, GapRunEnd(prelim, i))

GapsToFill(ws, dlg, threshold) ==
    GapsFrom(QuickGreedyAlign(ws, dlg), ws, dlg, threshold, 0)

\* steps 1 and 2; without a confirmed gap the function returns words
DetectGaps ==
    /\ pc = "afg_detect"
    /\ gaps_to_fill' = GapsToFill(words, dialogue, args.gap_threshold)
    /\ improved' = words
    /\ patch_words' = <<>>
    /\ idx' = 0
    /\ pc' = IF gaps_to_fill' = <<>> THEN "afg_returned" ELSE "afg_patch"
    /\ UNCHANGED <<words, dialogue, results, cursor, mainVars, llmVars, fnVars>>

-----------------------------------------------------------------------------
(* auto_fill_gaps: step 3, one gap re-transcribed and spliced *)

\* what the clip of a gap may come back as: ffmpeg fails, the transcriber
\* raises, or it returns tokens (in time order) among: one in the second
\* before the gap, one inside it, one in the second after it, one past the
\* clip
PatchCandidates(gap) ==
    <<[text |-> you, start |-> gap.gap_start - Sec, end |-> gap.gap_start - Sec \div 2],
      [text |-> you, start |-> gap.gap_start, end |-> gap.gap_start + Sec],
      [text |-> you, start |-> gap.gap_end + Sec \div 2, end |-> gap.gap_end + Sec],
      [text |-> you, start |-> gap.gap_end + Sec, end |-> gap.gap_end + 2 * Sec]>>

RECURSIVE Pick(_, _, _)
Pick(cands, chosen, k) ==
    IF k > Len(cands) THEN <<>>
    ELSE IF k \in chosen THEN <<cands[k]>> \o Pick(cands, chosen, k + 1)
         ELSE Pick(cands, chosen, k + 1)

PatchOutcomes(gap) ==
    {[kind |-> "extract_failed", patch_words |-> <<>>],
     [kind |-> "transcribe_failed", patch_words |-> <<>>]}
    \cup {[kind |-> "ok", patch_words |-> Pick(PatchCandidates(gap), c, 1)] :
          c \in SUBSET (1..Len(PatchCandidates(gap)))}

\* lines 431-432
FilterPatch(gap, patch) ==
    LET near(w) == w.start >= gap.gap_start - Sec /\ w.end <= gap.gap_end + Sec
    IN SelectSeq(patch, near)

\* lines 443-444
RemoveInGap(imp, gap) ==
    LET outside(w) == ~(w.start >= gap.gap_start /\ w.end <= gap.gap_end)
    IN SelectSeq(imp, outside)

\* lines 447-450: one past the last token that ends at or before gap_start
InsertPos(imp, gap) ==
    LET ks == {k \in 1..Len(imp) : imp[k].end <= gap.gap_start}
    IN IF ks = {} THEN 0 ELSE CHOOSE k \in ks : \A j \in ks : j <= k

InsertAt(imp, pos, patch) ==
    SubSeq(imp, 1, pos) \o patch \o SubSeq(imp, pos + 1, Len(imp))

\* mutant: the tokens inside the gap are removed before the patch is looked at
SpliceRemoveFirst(imp, gap, patch) ==
    IF patch = <<>> THEN RemoveInGap(imp, gap)
    ELSE IF FilterPatch(gap, patch) = <<>> THEN RemoveInGap(imp, gap)
    ELSE InsertAt(RemoveInGap(imp, gap),
                  InsertPos(RemoveInGap(imp, gap), gap),
                  FilterPatch(gap, patch))

\* lines 426-453 for one gap
Splice(imp, gap, patch) ==
    IF patch = <<>> THEN imp
    ELSE IF FilterPatch(gap, patch) = <<>> THEN imp
    ELSE InsertAt(RemoveInGap(imp, gap),
                  InsertPos(RemoveInGap(imp, gap), gap),
                  FilterPatch(gap, patch))

\* the try/finally of lines 406-424 has no except clause
Propagates(outcome) == outcome.kind # "ok"

PatchGap ==
    /\ pc = "afg_patch"
    /\ idx < Len(gaps_to_fill)
    /\ \E outcome \in PatchOutcomes(gaps_to_fill[idx + 1]) :
          IF Propagates(outcome)
          THEN /\ pc' = "raised"
               /\ UNCHANGED <<improved, patch_words, idx, llmVars>>
          ELSE /\ patch_words' = outcome.patch_words
               /\ improved' = Splice(improved, gaps_to_fill[idx + 1], outcome.patch_words)
               /\ IF idx + 1 < Len(gaps_to_fill)
                  THEN pc' = pc /\ idx' = idx + 1
                  ELSE pc' = "afg_returned" /\ idx' = 0
    /\ UNCHANGED <<words, dialogue, results, cursor, gaps_to_fill, mainVars, llmVars, fnVars>>

-----------------------------------------------------------------------------
(* fmt_time, build_output *)

\* f"{h:02d}:{m:02d}:{s:05.2f}": hours, minutes and the seconds rounded to
\* hundredths (cs); a tie, of which the inputs of the model have none, is
\* rounded to even
FmtTime(t) ==
    LET q == Sec \div 100
        s == t % (60 * Sec)
        lo == s \div q
        cs == IF 2 * (s % q) > q THEN lo + 1
              ELSE IF 2 * (s % q) < q THEN lo
              ELSE IF lo % 2 = 0 THEN lo ELSE lo + 1
    IN [h |-> t \div (3600 * Sec), m |-> (t % (3600 * Sec)) \div (60 * Sec), cs |-> cs]

BuildOutput(segs) ==
    [k \in 1..Len(segs) |->
        [text |-> segs[k].text,
         speaker |-> segs[k].speaker,
         translation |-> segs[k].translation,
         startTime |-> FmtTime(segs[k].start),
         endTime |-> FmtTime(segs[k].end)]]

-----------------------------------------------------------------------------
(* main *)

NoArgs == [whisper_cache |-> "absent", no_gap_fill |-> FALSE, gap_threshold |-> 0]
NotWritten == [written |-> FALSE, content |-> <<>>]
NoPrompt == [win_start |-> 0, win_end |-> 0, lines |-> <<>>]
NoMapping == [kind |-> "none", entries |-> <<>>]
NoCall == [fn |-> "none"]
NoReturn == [kind |-> "none"]
Written(content) == [written |-> TRUE, content |-> content]

StartOfAlign(dlg) == IF Len(dlg) = 0 THEN "pass3" ELSE "pass1"

\* lines 711-719 and 737-763: the cache path goes straight to align(); the
\* other path checks the transcription, then fills gaps unless told not to
MainStart ==
    /\ pc = "main"
    /\ pc' = IF args.whisper_cache = "present" THEN StartOfAlign(dialogue)
             ELSE IF words = <<>> THEN "exit_1"
             ELSE IF ~args.no_gap_fill THEN "afg_detect"
             ELSE StartOfAlign(dialogue)
    /\ saved_cache' = IF /\ args.whisper_cache = "missing"
                         /\ words # <<>>
                         /\ args.no_gap_fill
                      THEN Written(words) ELSE saved_cache
    /\ UNCHANGED <<args, words, dialogue, results, cursor, idx, gapVars, output, llmVars, fnVars>>

\* lines 758-775: words = auto_fill_gaps(...), then align(segments, words)
MainAfterGapFill ==
    /\ pc = "afg_returned"
    /\ words' = improved
    /\ saved_cache' = IF args.whisper_cache = "missing" THEN Written(improved) ELSE saved_cache
    /\ pc' = StartOfAlign(dialogue)
    /\ UNCHANGED <<args, dialogue, results, cursor, idx, gapVars, output, llmVars, fnVars>>

\* lines 721-724 and 779-783
WriteOutput ==
    /\ pc = "fixed"
    /\ output' = Written(BuildOutput(results))
    /\ pc' = "done"
    /\ UNCHANGED <<args, words, dialogue, results, cursor, idx, gapVars, saved_cache, llmVars, fnVars>>

-----------------------------------------------------------------------------
(* Inputs of the greedy backend *)

\* normalized token texts Whisper may return
TokenVocab == {hello, you}

\* silence, in seconds, before every token of a stream
TokenGaps == {0, 3}

\* a time-ordered, non-overlapping stream: every token lasts one second
MkStream(texts, g) ==
    [k \in 1..Len(texts) |->
        [text |-> texts[k],
         start |-> (g + (k - 1) * (1 + g)) * Sec,
         end |-> (g + (k - 1) * (1 + g) + 1) * Sec]]

TokenStreams ==
    UNION {{MkStream(t, g) : t \in [1..L -> TokenVocab], g \in TokenGaps} :
           L \in 0..MaxTokens}

\* streams longer than the search window: k times "hello", then "you" once
\* or twice
LongLens == {SEARCH_WINDOW, SEARCH_WINDOW + 1}
LongTails == {1, 2}

LongStreams ==
    {MkStream([i \in 1..(k + t) |-> IF i <= k THEN hello ELSE you], g) :
        k \in LongLens, t \in LongTails, g \in TokenGaps}

\* raw reference texts: "", an em dash, "Hallo!", "you", "hello you",
\* "Hello you you"
LineTexts ==
    {<<>>,
     <<"EMDASH">>,
     <<"H", "a", "l", "l", "o", "!">>,
     <<"y", "o", "u">>,
     <<"h", "e", "l", "l", "o", "SP", "y", "o", "u">>,
     <<"H", "e", "l", "l", "o", "SP", "y", "o", "u", "SP", "y", "o", "u">>}

\* seconds of placeholder time per line (0: the lines carry no timestamps
\* and seg.get("startTime", 0.0) applies)
PlaceholderSteps == {0, 4}

MkDialogue(texts, p) ==
    [k \in 1..Len(texts) |->
        [text |-> texts[k],
         speaker |-> <<"speaker", k>>,
         translation |-> <<"translation", k>>,
         startTime |-> (k - 1) * p * Sec,
         endTime |-> k * p * Sec]]

DialoguesOf(maxLines) ==
    UNION {{MkDialogue(t, p) : t \in [1..L -> LineTexts], p \in PlaceholderSteps} :
           L \in 0..maxLines}

\* start(k) <= end(k) <= start(k+1)
TimeOrdered(ws) ==
    /\ \A k \in 1..Len(ws) : ws[k].start <= ws[k].end
    /\ \A k \in 1..(Len(ws) - 1) : ws[k].end <= ws[k + 1].start

-----------------------------------------------------------------------------
(* align(dialogue, words) followed by fix_overlaps *)

Init ==
    /\ words \in TokenStreams \cup LongStreams
    /\ dialogue \in DialoguesOf(MaxLines)
    /\ results = <<>>
    /\ cursor = 0
    /\ idx = 0
    /\ pc = IF Len(dialogue) = 0 THEN "pass3" ELSE "pass1"
    /\ args = NoArgs
    /\ gaps_to_fill = <<>>
    /\ improved = <<>>
    /\ patch_words = <<>>
    /\ output = NotWritten
    /\ saved_cache = NotWritten
    /\ prompt = NoPrompt
    /\ mapping = NoMapping
    /\ call = NoCall
    /\ ret = NoReturn

Next ==
    \/ Pass1Step
    \/ Pass2Step
    \/ Pass3
    \/ FixOverlaps

Spec == Init /\ [][Next]_vars

-----------------------------------------------------------------------------
(* auto_fill_gaps(audio_path, words, dialogue, ..., gap_threshold) *)

\* seconds of silence before a token of a fresh transcription
GapSilences == {0, 6}

\* a time-ordered stream of one-second tokens "you", token k after
\* silences[k] seconds of silence
RECURSIVE MkGapStream(_, _)
MkGapStream(silences, t0) ==
    IF silences = <<>> THEN <<>>
    ELSE <<[text |-> you,
            start |-> (t0 + Head(silences)) * Sec,
            end |-> (t0 + Head(silences) + 1) * Sec]>>
         \o MkGapStream(Tail(silences), t0 + Head(silences) + 1)

GapStreams(minLen) ==
    UNION {{MkGapStream(g, 0) : g \in [1..L -> GapSilences]} : L \in minLen..MaxGapTokens}

\* reference texts of the gap detector's inputs: "you" and an em dash
GapLineTexts == {<<"y", "o", "u">>, <<"EMDASH">>}

GapDialogues ==
    UNION {{MkDialogue(t, 0) : t \in [1..L -> GapLineTexts]} : L \in 0..MaxGapLines}

\* --gap-threshold, in seconds
GapThresholds == {6, 7}

\* tokens "hello" between the two tokens "you" of a busy stream
MaxInside == 6

\* seconds of silence after the last "hello" of a busy stream
BusySilences == {0, 1, 6}

\* "you", k one-second tokens "hello" on its heels, s seconds of silence,
\* "you": a stretch between two anchors that holds k tokens
BusyStream(k, s) ==
    <<[text |-> you, start |-> 0, end |-> Sec]>>
    \o [i \in 1..k |-> [text |-> hello, start |-> i * Sec, end |-> (i + 1) * Sec]]
    \o <<[text |-> you, start |-> (k + 1 + s) * Sec, end |-> (k + 2 + s) * Sec]>>

BusyStreams == {BusyStream(k, s) : k \in 0..MaxInside, s \in BusySilences}

InitGap ==
    /\ words \in GapStreams(1) \cup BusyStreams
    /\ dialogue \in GapDialogues
    /\ args \in {[whisper_cache |-> "absent", no_gap_fill |-> FALSE,
                  gap_threshold |-> th * Sec] : th \in GapThresholds}
    /\ results = <<>>
    /\ cursor = 0
    /\ idx = 0
    /\ gaps_to_fill = <<>>
    /\ improved = <<>>
    /\ patch_words = <<>>
    /\ output = NotWritten
    /\ saved_cache = NotWritten
    /\ prompt = NoPrompt
    /\ mapping = NoMapping
    /\ call = NoCall
    /\ ret = NoReturn
    /\ pc = "afg_detect"

NextGap ==
    \/ DetectGaps
    \/ PatchGap

SpecGap == InitGap /\ [][NextGap]_vars

-----------------------------------------------------------------------------
(* main() *)

\* the transcription or the cache may hold no token at all
InitMain ==
    /\ words \in GapStreams(0)
    /\ dialogue \in GapDialogues
    /\ args \in {[whisper_cache |-> c, no_gap_fill |-> f, gap_threshold |-> 6 * Sec] :
                 c \in {"absent", "missing", "present"}, f \in BOOLEAN}
    /\ results = <<>>
    /\ cursor = 0
    /\ idx = 0
    /\ gaps_to_fill = <<>>
    /\ improved = <<>>
    /\ patch_words = <<>>
    /\ output = NotWritten
    /\ saved_cache = NotWritten
    /\ prompt = NoPrompt
    /\ mapping = NoMapping
    /\ call = NoCall
    /\ ret = NoReturn
    /\ pc = "main"

NextMain ==
    \/ MainStart
    \/ DetectGaps
    \/ PatchGap
    \/ MainAfterGapFill
    \/ Pass1Step
    \/ Pass2Step
    \/ Pass3
    \/ FixOverlaps
    \/ WriteOutput

SpecMain == InitMain /\ [][NextMain]_vars

-----------------------------------------------------------------------------
(* llm_align.py: align_with_llm *)

\* line 163: the prompt starts BackContext tokens before the cursor
BackContext == 20
\* line 218: max(20, dialogue_words * 3)
MinAllowedSpan == 20
SpanFactor == 3

WinStart(cur) == Max(0, cur - BackContext)
WinEnd(cur, n_words, window) == Min(n_words, WinStart(cur) + window)

\* _parse_fmt: "HH:MM:SS.ss" back to a time
ParseFmt(f) == (f.h * 3600 + f.m * 60) * Sec + f.cs * (Sec \div 100)

\* _unmatched_seg: the keys _w_start and _w_end are absent
UnmatchedSeg(seg) ==
    [text |-> seg.text, speaker |-> seg.speaker, translation |-> seg.translation,
     startTime |-> FmtTime(seg.start), endTime |-> FmtTime(seg.end),
     matched |-> FALSE]

MatchedSeg(seg, ws, w_start_idx, w_end_idx) ==
    [text |-> seg.text, speaker |-> seg.speaker, translation |-> seg.translation,
     startTime |-> FmtTime(ws[w_start_idx + 1].start),
     endTime |-> FmtTime(ws[w_end_idx + 1].end),
     matched |-> TRUE, w_start |-> w_start_idx, w_end |-> w_end_idx]

\* batches[batch_num] of line 155
Batch(dlg, batch_num, batch_size) ==
    SubSeq(dlg, batch_num * batch_size + 1, Min(Len(dlg), (batch_num + 1) * batch_size))

TotalBatches(dlg, batch_size) == (Len(dlg) + batch_size - 1) \div batch_size

\* lines 192-193: int(batch[-1].idx / len(dialogue) * n_words)
\* mutant: the estimate replaces the cursor even when it lies before it
FallbackCursorReset(cur, batch, dlg, n_words) ==
    (batch[Len(batch)].idx * n_words) \div Len(dlg)

FallbackCursor(cur, batch, dlg, n_words) ==
    Max(cur, (batch[Len(batch)].idx * n_words) \div Len(dlg))

\* lines 212-213
ClampStart(w_start, n_words) == Max(0, Min(w_start, n_words - 1))
ClampEnd(w_start_idx, w_end, n_words) == Max(w_start_idx, Min(w_end, n_words - 1))

\* a limit one token too wide
MaxAllowedSpanLoose(seg) == Max(MinAllowedSpan, Len(Split(seg.text)) * SpanFactor) + 1

\* lines 217-218
MaxAllowedSpan(seg) == Max(MinAllowedSpan, Len(Split(seg.text)) * SpanFactor)

\* lines 199-241 for the lines of the batch from position k on.  acc holds
\* the results of the batch so far, last_matched_w_end, and whether an
\* exception left the loop.  An entry is
\*   "null":      absent, null, "null" or falsy under all three keys;
\*   "malformed": a value without the keys, of the wrong type, or whose
\*                w_start / w_end int() refuses with TypeError or ValueError;
\*   "overflow":  w_start or w_end is Infinity, which json.loads accepts and
\*                int() refuses with OverflowError;
\*   "span":      integers w_start and w_end.
RECURSIVE ProcessEntries(_, _, _, _, _)
ProcessEntries(batch, entries, ws, k, acc) ==
    IF k > Len(batch) THEN acc
    ELSE LET seg == batch[k]
             entry == entries[k]
             w_start_idx == ClampStart(entry.w_start, Len(ws))
             w_end_idx == ClampEnd(w_start_idx, entry.w_end, Len(ws))
             unmatched == [acc EXCEPT !.results = Append(@, UnmatchedSeg(seg))]
         IN IF entry.kind \in {"null", "malformed"}
            THEN ProcessEntries(batch, entries, ws, k + 1, unmatched)
            ELSE IF entry.kind = "overflow"
            THEN [acc EXCEPT !.raised = TRUE]
            ELSE IF w_end_idx - w_start_idx + 1 > MaxAllowedSpan(seg)
            THEN ProcessEntries(batch, entries, ws, k + 1, unmatched)
            ELSE ProcessEntries(batch, entries, ws, k + 1,
                     [acc EXCEPT !.results = Append(@, MatchedSeg(seg, ws, w_start_idx, w_end_idx)),
                                 !.last_matched_w_end = w_end_idx])

RECURSIVE AllUnmatched(_)
AllUnmatched(batch) ==
    IF batch = <<>> THEN <<>>
    ELSE <<UnmatchedSeg(Head(batch))>> \o AllUnmatched(Tail(batch))

\* w_start / w_end values the collaborator may answer for a stream of
\* n_words tokens: before the stream, its first and its last position, one
\* past the end
IndexChoices(n_words) == {-1, 0, n_words - 1, n_words}

EntryChoices(n_words) ==
    {[kind |-> k, w_start |-> 0, w_end |-> 0] : k \in {"null", "malformed", "overflow"}}
    \cup {[kind |-> "span", w_start |-> a, w_end |-> b] :
          a \in IndexChoices(n_words), b \in IndexChoices(n_words)}

\* what client.messages.create and parse_llm_response may yield for a batch:
\* an exception of the API, text that is not JSON, JSON that is not an
\* object (a list, a number, a string, null), or an object
Responses(batch, n_words) ==
    {[kind |-> k, entries |-> <<>>] : k \in {"api_error", "not_json", "not_object"}}
    \cup {[kind |-> "object", entries |-> e] :
          e \in [1..Len(batch) -> EntryChoices(n_words)]}

PromptOf(cur, batch, n_words, window) ==
    [win_start |-> WinStart(cur),
     win_end |-> WinEnd(cur, n_words, window),
     lines |-> [k \in 1..Len(batch) |-> batch[k].idx]]

AfterBatch(batch_num) ==
    IF batch_num + 1 < TotalBatches(dialogue, args.batch_size)
    THEN "llm_batch" ELSE "llm_interpolate"

\* one iteration of the loop of lines 158-246
LlmBatch ==
    /\ pc = "llm_batch"
    /\ LET batch == Batch(dialogue, idx, args.batch_size)
           n_words == Len(words)
       IN /\ prompt' = PromptOf(cursor, batch, n_words, args.window)
          /\ \E response \in Responses(batch, n_words) :
               /\ mapping' = response
               /\ CASE response.kind = "api_error" ->
                         /\ results' = results \o AllUnmatched(batch)
                         /\ cursor' = cursor
                         /\ idx' = idx + 1
                         /\ pc' = AfterBatch(idx)
                    [] response.kind = "not_json" ->
                         /\ results' = results \o AllUnmatched(batch)
                         /\ cursor' = FallbackCursor(cursor, batch, dialogue, n_words)
                         /\ idx' = idx + 1
                         /\ pc' = AfterBatch(idx)
                    [] response.kind = "not_object" ->
                         \* mapping.get raises AttributeError, which nothing catches
                         /\ pc' = "raised"
                         /\ UNCHANGED <<results, cursor, idx>>
                    [] response.kind = "object" ->
                         LET acc == ProcessEntries(batch, response.entries, words, 1,
                                        [results |-> <<>>, last_matched_w_end |-> cursor,
                                         raised |-> FALSE])
                         IN /\ results' = results \o acc.results
                            /\ IF acc.raised
                               THEN /\ pc' = "raised"
                                    /\ UNCHANGED <<cursor, idx>>
                               ELSE /\ cursor' = IF acc.last_matched_w_end > cursor
                                                 THEN acc.last_matched_w_end + 1
                                                 ELSE cursor
                                    /\ idx' = idx + 1
                                    /\ pc' = AfterBatch(idx)
    /\ UNCHANGED <<args, words, dialogue, gapVars, output, saved_cache, fnVars>>

-----------------------------------------------------------------------------
(* llm_align.py: _interpolate_unmatched *)

RECURSIVE LlmRunEnd(_, _)
LlmRunEnd(res, i) ==
    IF i < Len(res) /\ ~res[i + 1].matched THEN LlmRunEnd(res, i + 1) ELSE i

\* lines 288-327 for the run [run_start, run_end)
LlmInterpolateRun(res, run_start, run_end) ==
    LET n == Len(res)
        run_len == run_end - run_start
        has_prev == run_start > 0
        has_next == run_end < n
        t0 == ParseFmt(res[run_start].endTime)
        t1 == ParseFmt(res[run_end + 1].startTime)
        start_sec(pos) ==
            IF has_prev /\ has_next
            THEN IF t1 > t0 THEN t0 + (pos * (t1 - t0)) \div (run_len + 1)
                 ELSE t0 + pos * 2 * Sec
            ELSE IF has_prev THEN t0 + pos * 2 * Sec
            ELSE t1 - (run_len - pos) * 2 * Sec
        end_sec(pos) ==
            IF has_prev /\ has_next /\ t1 > t0
            THEN t0 + ((pos + 1) * (t1 - t0)) \div (run_len + 1)
            ELSE start_sec(pos) + 2 * Sec
    IN IF ~has_prev /\ ~has_next THEN res
       ELSE [k \in 1..n |->
                IF run_start < k /\ k <= run_end
                THEN [res[k] EXCEPT
                         !.startTime = FmtTime(Max(0, start_sec(k - 1 - run_start))),
                         !.endTime = FmtTime(Max(0, end_sec(k - 1 - run_start)))]
                ELSE res[k]]

RECURSIVE LlmInterpolateFrom(_, _)
LlmInterpolateFrom(res, i) ==
    IF i >= Len(res) THEN res
    ELSE IF res[i + 1].matched THEN LlmInterpolateFrom(res, i + 1)
    ELSE LlmInterpolateFrom(LlmInterpolateRun(res, i, LlmRunEnd(res, i)), LlmRunEnd(res, i))

LlmInterpolateUnmatched(res) == LlmInterpolateFrom(res, 0)

\* lines 248-252
LlmReturn ==
    /\ pc = "llm_interpolate"
    /\ results' = LlmInterpolateUnmatched(results)
    /\ pc' = "llm_returned"
    /\ UNCHANGED <<args, words, dialogue, cursor, idx, gapVars, output, saved_cache, llmVars, fnVars>>

-----------------------------------------------------------------------------
(* align_with_llm(words, dialogue, client, model, batch_size, window) *)

MaxLlmLines == 3

\* lengths of the cached token streams: shorter and longer than BackContext
LlmStreamLens == {2, BackContext + 1}

\* load_words: token k - 1 is spoken from second k - 1 to second k
MkLlmStream(n) ==
    [k \in 1..n |-> [idx |-> k - 1, text |-> you, start |-> (k - 1) * Sec, end |-> k * Sec]]

\* "a a a a a a a": seven words, so SpanFactor times its word count
\* exceeds MinAllowedSpan
SevenWords ==
    <<"a", "SP", "a", "SP", "a", "SP", "a", "SP", "a", "SP", "a", "SP", "a">>

\* load_dialogue: the odd lines are seven words long, the even ones are "you"
MkLlmDialogue(n, p) ==
    [k \in 1..n |->
        [idx |-> k - 1,
         text |-> IF k % 2 = 1 THEN SevenWords ELSE <<"y", "o", "u">>,
         speaker |-> <<"speaker", k>>,
         translation |-> <<"translation", k>>,
         start |-> (k - 1) * p * Sec,
         end |-> k * p * Sec]]

\* --batch-size and --window
BatchSizes == {1, 2}
Windows == {3}

InitLlm ==
    /\ words \in {MkLlmStream(n) : n \in LlmStreamLens}
    /\ dialogue \in {MkLlmDialogue(n, p) : n \in 0..MaxLlmLines, p \in PlaceholderSteps}
    /\ args \in {[batch_size |-> b, window |-> w] : b \in BatchSizes, w \in Windows}
    /\ results = <<>>
    /\ cursor = 0
    /\ idx = 0
    /\ gaps_to_fill = <<>>
    /\ improved = <<>>
    /\ patch_words = <<>>
    /\ output = NotWritten
    /\ saved_cache = NotWritten
    /\ prompt = NoPrompt
    /\ mapping = NoMapping
    /\ call = NoCall
    /\ ret = NoReturn
    /\ pc = IF Len(dialogue) = 0 THEN "llm_interpolate" ELSE "llm_batch"

NextLlm ==
    \/ LlmBatch
    \/ LlmReturn

SpecLlm == InitLlm /\ [][NextLlm]_vars

-----------------------------------------------------------------------------
(* align() on a line long enough to score exactly MATCH_THRESHOLD *)

\* the shortest line on which a score of MatchNum / MatchDen exists, and the
\* number of its words that have to be found
ThresholdWords == MatchDen \div Gcd(MatchNum, MatchDen)
ThresholdMatches == MatchNum \div Gcd(MatchNum, MatchDen)

\* tokens "you" that follow the first ThresholdWords tokens of a stream
MaxLate == 3

\* the raw text "you you ... you" of n words
RECURSIVE RepeatText(_)
RepeatText(n) ==
    IF n <= 1 THEN <<"y", "o", "u">>
    ELSE <<"y", "o", "u", "SP">> \o RepeatText(n - 1)

Copies(w, n) == [k \in 1..n |-> w]

\* MaxLate tokens "hello", a tokens "you", then "hello" up to ThresholdWords
\* tokens, then b tokens "you": the window at position j <= b holds
\* a + j tokens "you"
ThresholdTexts(a, b) ==
    Copies(hello, MaxLate) \o Copies(you, a)
    \o Copies(hello, ThresholdWords - MaxLate - a) \o Copies(you, b)

ThresholdStreams ==
    {MkStream(ThresholdTexts(a, b), 0) :
        a \in (ThresholdMatches - MaxLate)..(ThresholdMatches + 1), b \in 0..MaxLate}

\* raw texts of the line after the long one: "you", an em dash,
\* "hello hello you"
ThresholdNextTexts ==
    {<<"y", "o", "u">>,
     <<"EMDASH">>,
     <<"h", "e", "l", "l", "o", "SP", "h", "e", "l", "l", "o", "SP", "y", "o", "u">>}

\* the long line alone or followed by one more line
ThresholdDialogues ==
    {MkDialogue(<<RepeatText(ThresholdWords)>> \o rest, p) :
        rest \in {<<>>} \cup {<<t>> : t \in ThresholdNextTexts}, p \in PlaceholderSteps}

InitThreshold ==
    /\ words \in ThresholdStreams
    /\ dialogue \in ThresholdDialogues
    /\ results = <<>>
    /\ cursor = 0
    /\ idx = 0
    /\ pc = "pass1"
    /\ args = NoArgs
    /\ gaps_to_fill = <<>>
    /\ improved = <<>>
    /\ patch_words = <<>>
    /\ output = NotWritten
    /\ saved_cache = NotWritten
    /\ prompt = NoPrompt
    /\ mapping = NoMapping
    /\ call = NoCall
    /\ ret = NoReturn

SpecThreshold == InitThreshold /\ [][Next]_vars

-----------------------------------------------------------------------------
(* align() and fix_overlaps on a two-line dialogue spoken with a pause *)

Tenth == Sec \div 10     \* 0.1 s

\* seconds of silence between "there" and "how"
ExampleSilences == {0, 1, 2}

\* hello [0.0, 0.5], there [0.5, 1.0], then after s seconds of silence
\* how [+0.0, +0.3], are [+0.3, +0.6], you [+0.6, +1.0]
ExampleStream(s) ==
    LET t == (1 + s) * Sec
    IN <<[text |-> hello, start |-> 0, end |-> 5 * Tenth],
         [text |-> there, start |-> 5 * Tenth, end |-> 10 * Tenth],
         [text |-> how, start |-> t, end |-> t + 3 * Tenth],
         [text |-> are, start |-> t + 3 * Tenth, end |-> t + 6 * Tenth],
         [text |-> you, start |-> t + 6 * Tenth, end |-> t + 10 * Tenth]>>

\* a stream longer than the search window: "hello how are you", then
\* "hello" up to two tokens past the window, the last one replaced by "there"
LongExampleStream ==
    MkStream([i \in 1..(SEARCH_WINDOW + 2) |->
                 CASE i = 2 -> how
                   [] i = 3 -> are
                   [] i = 4 -> you
                   [] i = SEARCH_WINDOW + 2 -> there
                   [] OTHER -> hello], 0)

ExampleStreams == {ExampleStream(s) : s \in ExampleSilences} \cup {LongExampleStream}

HelloThere == <<"h", "e", "l", "l", "o", "SP", "t", "h", "e", "r", "e">>
HowAreYou == <<"h", "o", "w", "SP", "a", "r", "e", "SP", "y", "o", "u">>

\* raw reference texts: "hello there", "how are you", "you", "there", an em
\* dash
ExampleLineTexts ==
    {HelloThere, HowAreYou, <<"y", "o", "u">>, <<"t", "h", "e", "r", "e">>, <<"EMDASH">>}

ExampleDialogues ==
    UNION {{MkDialogue(t, p) : t \in [1..L -> ExampleLineTexts], p \in PlaceholderSteps} :
           L \in 0..MaxLines}

InitExample ==
    /\ words \in ExampleStreams
    /\ dialogue \in ExampleDialogues
    /\ results = <<>>
    /\ cursor = 0
    /\ idx = 0
    /\ pc = StartOfAlign(dialogue)
    /\ args = NoArgs
    /\ gaps_to_fill = <<>>
    /\ improved = <<>>
    /\ patch_words = <<>>
    /\ output = NotWritten
    /\ saved_cache = NotWritten
    /\ prompt = NoPrompt
    /\ mapping = NoMapping
    /\ call = NoCall
    /\ ret = NoReturn

SpecExample == InitExample /\ [][Next]_vars

-----------------------------------------------------------------------------
(* word_match_score(ref, hyp) called on its own *)

MaxScoreLen == 2

\* normalized words: "hallo" is similar to "hello" and to "hallu", which are
\* not similar to each other
ScoreVocab == {hello, hallo, hallu, you}

WordLists == UNION {[1..L -> ScoreVocab] : L \in 0..MaxScoreLen}

Idle ==
    /\ words = <<>>
    /\ dialogue = <<>>
    /\ results = <<>>
    /\ cursor = 0
    /\ idx = 0
    /\ args = NoArgs
    /\ gaps_to_fill = <<>>
    /\ improved = <<>>
    /\ patch_words = <<>>
    /\ output = NotWritten
    /\ saved_cache = NotWritten
    /\ prompt = NoPrompt
    /\ mapping = NoMapping

Value(v) == [kind |-> "value", value |-> v]

InitScore ==
    /\ Idle
    /\ pc = "call"
    /\ call \in {[fn |-> "word_match_score", ref |-> r, hyp |-> h] :
                    r \in WordLists, h \in WordLists}
    /\ ret = NoReturn

CallWordMatchScore ==
    /\ pc = "call"
    /\ call.fn = "word_match_score"
    /\ ret' = Value(WordMatchScore(call.ref, call.hyp))
    /\ pc' = "returned"
    /\ UNCHANGED <<words, dialogue, results, cursor, idx, mainVars, gapVars, llmVars, call>>

NextScore == CallWordMatchScore

SpecScore == InitScore /\ [][NextScore]_vars

-----------------------------------------------------------------------------
(* normalize_word(w) and normalize_text(text) called on their own *)

MaxRawLen == 4

\* a lower-case letter, an upper-case letter, a digit, an apostrophe and a
\* punctuation mark
WordAlphabet == {"a", "H", "2", "'", "!"}

\* the same with a blank and an em dash
TextAlphabet == WordAlphabet \cup {"SP", "EMDASH"}

Strings(alphabet) == UNION {[1..L -> alphabet] : L \in 0..MaxRawLen}

InitNormalize ==
    /\ Idle
    /\ pc = "call"
    /\ call \in {[fn |-> "normalize_word", w |-> w] : w \in Strings(WordAlphabet)}
                \cup {[fn |-> "normalize_text", text |-> t] : t \in Strings(TextAlphabet)}
    /\ ret = NoReturn

CallNormalizeWord ==
    /\ pc = "call"
    /\ call.fn = "normalize_word"
    /\ ret' = Value(NormalizeWord(call.w))
    /\ pc' = "returned"
    /\ UNCHANGED <<words, dialogue, results, cursor, idx, mainVars, gapVars, llmVars, call>>

CallNormalizeText ==
    /\ pc = "call"
    /\ call.fn = "normalize_text"
    /\ ret' = Value(NormalizeText(call.text))
    /\ pc' = "returned"
    /\ UNCHANGED <<words, dialogue, results, cursor, idx, mainVars, gapVars, llmVars, call>>

NextNormalize ==
    \/ CallNormalizeWord
    \/ CallNormalizeText

SpecNormalize == InitNormalize /\ [][NextNormalize]_vars

-----------------------------------------------------------------------------
(* align() and fix_overlaps on token timestamps that overlap *)

\* seconds from the start of one token to the start of the next: 0.02 s, 1 s
OverlapSteps == {Sec \div 50, Sec}

\* how long every token lasts: 1 s, 2 s
OverlapDurations == {Sec, 2 * Sec}

\* n tokens "you"
OverlapStream(n, step, dur) ==
    [k \in 1..n |-> [text |-> you, start |-> (k - 1) * step, end |-> (k - 1) * step + dur]]

OverlapStreams ==
    {OverlapStream(n, step, dur) :
        n \in 0..MaxTokens, step \in OverlapSteps, dur \in OverlapDurations}

InitOverlap ==
    /\ words \in OverlapStreams
    /\ dialogue \in DialoguesOf(MaxLines)
    /\ results = <<>>
    /\ cursor = 0
    /\ idx = 0
    /\ pc = StartOfAlign(dialogue)
    /\ args = NoArgs
    /\ gaps_to_fill = <<>>
    /\ improved = <<>>
    /\ patch_words = <<>>
    /\ output = NotWritten
    /\ saved_cache = NotWritten
    /\ prompt = NoPrompt
    /\ mapping = NoMapping
    /\ call = NoCall
    /\ ret = NoReturn

SpecOverlap == InitOverlap /\ [][Next]_vars

-----------------------------------------------------------------------------
(* fmt_time(sec) called on its own *)

\* thirds of a hundredth of a second above a whole second: no input lies
\* half way between two hundredths
FmtSteps == 300

\* whole seconds next to the minute and hour boundaries
FmtBases == {0, 59, 60, 3599, 3600, 3659}

FmtInputs ==
    {b * Sec + k * (Sec \div 300) : b \in FmtBases, k \in 0..FmtSteps}

InitFmt ==
    /\ Idle
    /\ pc = "call"
    /\ call \in {[fn |-> "fmt_time", sec |-> t] : t \in FmtInputs}
    /\ ret = NoReturn

CallFmtTime ==
    /\ pc = "call"
    /\ call.fn = "fmt_time"
    /\ ret' = Value(FmtTime(call.sec))
    /\ pc' = "returned"
    /\ UNCHANGED <<words, dialogue, results, cursor, idx, mainVars, gapVars, llmVars, call>>

NextFmt == CallFmtTime

SpecFmt == InitFmt /\ [][NextFmt]_vars

-----------------------------------------------------------------------------
(* Claims *)

AfterPass2 == pc \in {"pass3", "aligned", "fixed"}
Returned == pc \in {"aligned", "fixed"}

MatchedLines == {k \in 1..Len(results) : results[k].matched}

\* C1: every two matched lines i < j satisfy word_end_idx(i) < word_start_idx(j),
\* during and after both passes of align(): no token belongs to two lines and
\* the spans follow the order of the lines.
C1_SpanOrder ==
    \A i, j \in MatchedLines :
        i < j => results[i].word_end_idx < results[j].word_start_idx

\* a line committed by pass 2 (its span lies at or after the pass-1 cursor)
\* behind another matched line
C1_Witness ==
    /\ AfterPass2
    /\ \E i, j \in MatchedLines : i < j /\ results[j].word_start_idx >= cursor

C3_NonNegativeDuration ==
    (pc = "fixed" /\ TimeOrdered(words)) =>
        \A k \in 1..Len(results) :
            0 <= results[k].start /\ results[k].start <= results[k].end

\* C4: align() returns one AlignedSegment per reference line, in input order,
\* carrying the line's text, speaker and translation.
C4_OnePerLine ==
    (pc \in {"pass2", "pass3", "aligned", "fixed"}) =>
        /\ Len(results) = Len(dialogue)
        /\ \A k \in 1..Len(dialogue) :
              /\ results[k].text = dialogue[k].text
              /\ results[k].speaker = dialogue[k].speaker
              /\ results[k].translation = dialogue[k].translation

\* a returned alignment that holds a matched line and a line without words
C4_Witness ==
    /\ Returned
    /\ \E i, j \in 1..Len(results) :
          /\ results[i].matched
          /\ ~results[j].matched
          /\ NormalizeText(results[j].text) = <<>>

\* start(k) <= start(k+1): the weakest reading of "time order"
NonDecreasing(ws) == \A k \in 1..(Len(ws) - 1) : ws[k].start <= ws[k + 1].start

\* C5: a failure of the extraction or of the re-transcription of one gap is
\* not propagated: auto_fill_gaps goes on with the next gap and returns.
C5_GapFailureIsLocal == pc # "raised"

\* C6: a token stream in non-decreasing time order is still in non-decreasing
\* time order when auto_fill_gaps returns it.
C6_SpliceKeepsOrder ==
    (pc = "afg_returned" /\ NonDecreasing(words)) => NonDecreasing(improved)

\* C7: a run whose token stream is empty writes no aligned output, whether
\* the tokens come from a transcription or from the whisper cache.
C7_EmptyStreamFails ==
    words = <<>> => (~output.written /\ pc # "done")


LlmMatchedLines == {k \in 1..Len(results) : results[k].matched}

\* C8: whatever the collaborator answers for a batch (an API exception, text
\* that is not JSON, JSON that is not an object, malformed entries),
\* align_with_llm never raises and returns one result per reference line.
C8_LlmNeverRaises ==
    /\ pc # "raised"
    /\ pc = "llm_returned" => Len(results) = Len(dialogue)

\* C9: in the output of align_with_llm every two matched lines i < j satisfy
\* w_end(i) < w_start(j).
C9_LlmSpanOrder ==
    pc = "llm_returned" =>
        \A i, j \in LlmMatchedLines : i < j => results[i].w_end < results[j].w_start

\* C10: a batch with a matched line leaves the cursor one past the span of its
\* last matched line; a batch without a matched line leaves it where the
\* fallback heuristic puts it.
C10_CursorAdvance ==
    [][(pc = "llm_batch" /\ pc' # "raised") =>
         LET batch == Batch(dialogue, idx, args.batch_size)
             matched_lines == {k \in 1..Len(batch) : results'[batch[k].idx + 1].matched}
             last == CHOOSE k \in matched_lines : \A j \in matched_lines : j <= k
         IN IF matched_lines # {}
            THEN cursor' = results'[batch[last].idx + 1].w_end + 1
            ELSE cursor' = FallbackCursor(cursor, batch, dialogue, Len(words))]_vars

\* C11: every line align_with_llm reports as matched has
\* 0 <= w_start <= w_end <= n_words - 1 and a span of at most
\* max(20, 3 x the number of whitespace-separated words of the line) tokens.
C11_LlmSpanSane ==
    \A k \in LlmMatchedLines :
        /\ 0 <= results[k].w_start
        /\ results[k].w_start <= results[k].w_end
        /\ results[k].w_end <= Len(words) - 1
        /\ results[k].w_end - results[k].w_start + 1
              <= Max(MinAllowedSpan, SpanFactor * Len(Split(dialogue[k].text)))

\* a returned alignment in which a seven-word line holds a span wider than
\* MinAllowedSpan, ending at the last token of the stream
C11_Witness ==
    /\ pc = "llm_returned"
    /\ \E k \in LlmMatchedLines :
          /\ results[k].w_end - results[k].w_start + 1 > MinAllowedSpan
          /\ results[k].w_end = Len(words) - 1

\* C12: a per-line answer whose w_start is greater than its w_end leaves the
\* line unmatched.
C12_ReversedSpanUnmatched ==
    (pc \in {"llm_batch", "llm_interpolate", "llm_returned"} /\ mapping.kind = "object") =>
        \A k \in 1..Len(prompt.lines) :
            (/\ mapping.entries[k].kind = "span"
             /\ mapping.entries[k].w_start > mapping.entries[k].w_end)
                => ~results[prompt.lines[k] + 1].matched

\* the positions _best_match_in_range scores for a line of n words in the
\* region [start, end)
Visited(n, start, end) ==
    {j \in start..(Max(start + 1, end - n + 1) - 1) : j + n <= Len(words)}

\* C13: a line is committed as matched if and only if the best score found
\* in its range is >= MATCH_THRESHOLD.  The score a line carries meets the
\* threshold exactly when the line is matched, and once pass 2 is over no
\* position it scored for a line left unmatched meets the threshold.
C13_ThresholdInclusive ==
    /\ \A k \in 1..Len(results) :
          results[k].matched <=>
              results[k].score.num * MatchDen >= MatchNum * results[k].score.den
    /\ AfterPass2 =>
          \A k \in 1..Len(results) :
              LET ref_words == NormalizeText(results[k].text)
                  n == Len(ref_words)
              IN (~results[k].matched /\ n > 0) =>
                    \A j \in Visited(n, PrevWordEnd(results, k - 1),
                                     NextWordStart(results, words, k - 1)) :
                        LET score == WordMatchScore(ref_words, Hyp(words, j, n))
                        IN score.num * MatchDen < MatchNum * score.den

\* pass 2 is over; one line was committed with a score of exactly
\* MATCH_THRESHOLD and another was left unmatched with a lower score above 0
C13_Witness ==
    /\ AfterPass2
    /\ \E i, j \in 1..Len(results) :
          /\ results[i].matched
          /\ results[i].score.num * MatchDen = MatchNum * results[i].score.den
          /\ ~results[j].matched
          /\ results[j].score.num > 0

\* the maximal runs [s, e) of lines the probe left unmatched (0-based)
UnmatchedRuns(prelim) ==
    {r \in (0..Len(prelim)) \X (0..Len(prelim)) :
        /\ r[1] < r[2]
        /\ \A k \in r[1]..(r[2] - 1) : ~prelim[k + 1].matched
        /\ r[1] = 0 \/ prelim[r[1]].matched
        /\ r[2] = Len(prelim) \/ prelim[r[2] + 1].matched}

\* the region of a run with a matched line on both sides
RegionOf(prelim, r) == [gap_start |-> prelim[r[1]].end, gap_end |-> prelim[r[2] + 1].start]

\* C14: a maximal run of unmatched lines is patched if and only if a matched
\* line precedes it, a matched line follows it, t_after - t_before is at least
\* gap_threshold and at most 5 tokens lie fully inside [t_before, t_after].
C14_GapRule ==
    pc \in {"afg_patch", "afg_returned"} =>
        LET prelim == QuickGreedyAlign(words, dialogue)
            confirmed ==
                {r \in UnmatchedRuns(prelim) :
                    /\ r[1] > 0
                    /\ r[2] < Len(prelim)
                    /\ RegionOf(prelim, r).gap_end - RegionOf(prelim, r).gap_start
                          >= args.gap_threshold
                    /\ Cardinality({k \in 1..Len(words) :
                          /\ words[k].start >= RegionOf(prelim, r).gap_start
                          /\ words[k].end <= RegionOf(prelim, r).gap_end}) <= MaxWordsInGap}
        IN /\ Len(gaps_to_fill) = Cardinality(confirmed)
           /\ {[gap_start |-> g.gap_start, gap_end |-> g.gap_end] :
                   g \in {gaps_to_fill[k] : k \in 1..Len(gaps_to_fill)}}
              = {RegionOf(prelim, r) : r \in confirmed}

\* a stretch of exactly gap_threshold seconds that holds MaxWordsInGap + 1
\* tokens and is not patched
C14_Witness ==
    /\ pc = "afg_returned"
    /\ gaps_to_fill = <<>>
    /\ LET prelim == QuickGreedyAlign(words, dialogue)
       IN \E r \in UnmatchedRuns(prelim) :
             /\ r[1] > 0
             /\ r[2] < Len(prelim)
             /\ RegionOf(prelim, r).gap_end - RegionOf(prelim, r).gap_start
                   = args.gap_threshold
             /\ Cardinality({k \in 1..Len(words) :
                   /\ words[k].start >= RegionOf(prelim, r).gap_start
                   /\ words[k].end <= RegionOf(prelim, r).gap_end}) = MaxWordsInGap + 1

\* the maximal runs [s, e) of unmatched lines of the alignment (0-based)
ResultRuns == UnmatchedRuns(results)

\* the end of the matched line before a run, 0.0 for a run at index 0
RunBefore(r) == IF r[1] > 0 THEN results[r[1]].end ELSE 0

\* C15: a maximal run of k unmatched lines followed by a matched line divides
\* [t_before, t_after] into k equal parts: line p of the run (0-based) gets
\* start = t_before + p * d and end = t_before + (p + 1) * d with
\* d = (t_after - t_before) / k.
C15_EqualParts ==
    Returned =>
        \A r \in ResultRuns :
            r[2] < Len(results) =>
                LET k == r[2] - r[1]
                    t_before == RunBefore(r)
                    t_after == results[r[2] + 1].start
                IN \A p \in 0..(k - 1) :
                      /\ k * results[r[1] + p + 1].start
                            = k * t_before + p * (t_after - t_before)
                      /\ k * results[r[1] + p + 1].end
                            = k * t_before + (p + 1) * (t_after - t_before)

\* a run of two or more lines between two matched lines that are apart
C15_Witness ==
    /\ Returned
    /\ \E r \in ResultRuns :
          /\ r[1] > 0
          /\ r[2] < Len(results)
          /\ r[2] - r[1] >= 2
          /\ results[r[2] + 1].start > results[r[1]].end

\* C16: an unmatched run of k lines that extends to the end of the sequence
\* is spread over [t_before, t_before + 2k]: line p of the run (0-based) gets
\* [t_before + 2p, t_before + 2(p + 1)] seconds, whatever the placeholder
\* timestamps of the lines are.
C16_TrailingRun ==
    Returned =>
        \A r \in ResultRuns :
            r[2] = Len(results) =>
                \A p \in 0..(r[2] - r[1] - 1) :
                    /\ results[r[1] + p + 1].start = RunBefore(r) + 2 * p * Sec
                    /\ results[r[1] + p + 1].end = RunBefore(r) + 2 * (p + 1) * Sec

\* the lines of align_with_llm as the greedy interpolator reads them
AsGreedy(res) ==
    [k \in 1..Len(res) |->
        [matched |-> res[k].matched,
         start |-> ParseFmt(res[k].startTime),
         end |-> ParseFmt(res[k].endTime)]]

\* C17: llm_align's _interpolate_unmatched gives every unmatched line of a run
\* between two matched lines, the second of which starts after the first
\* ends, the start and the end that align_whisper's _interpolate_unmatched
\* gives it for the same anchors.
C17_SameInterpolation ==
    [][pc = "llm_interpolate" =>
          LET greedy == InterpolateUnmatched(AsGreedy(results))
          IN \A r \in UnmatchedRuns(results) :
                (/\ r[1] > 0
                 /\ r[2] < Len(results)
                 /\ greedy[r[2] + 1].start > greedy[r[1]].end) =>
                    \A k \in (r[1] + 1)..r[2] :
                        /\ results'[k].startTime = FmtTime(greedy[k].start)
                        /\ results'[k].endTime = FmtTime(greedy[k].end)]_vars

\* the example: the stream with two seconds of silence, and the lines
\* "hello there", "how are you"
ExampleInput ==
    /\ words = ExampleStream(2)
    /\ Len(dialogue) = 2
    /\ dialogue[1].text = HelloThere
    /\ dialogue[2].text = HowAreYou

\* C18: for the lines "hello there", "how are you" and the tokens
\* hello [0.0, 0.5], there [0.5, 1.0], how [3.0, 3.3], are [3.3, 3.6],
\* you [3.6, 4.0], align() followed by fix_overlaps returns both lines matched,
\* the first over [0.0, 1.0] and the second over [3.0, 4.0].
C18_Example ==
    (pc = "fixed" /\ ExampleInput) =>
        /\ Len(results) = 2
        /\ results[1].matched
        /\ results[1].start = 0
        /\ results[1].end = Sec
        /\ results[2].matched
        /\ results[2].start = 3 * Sec
        /\ results[2].end = 4 * Sec

C18_Witness ==
    /\ pc = "fixed"
    /\ ExampleInput
    /\ results[1].word_end_idx = 1
    /\ results[2].word_start_idx = 2
    /\ results[2].word_end_idx = 4

\* the claiming of lines 104-109, stated for all reference words at once:
\* c[k] is the first hypothesis word similar to ref[k] that no earlier
\* reference word has claimed, 0 when there is none
GreedyClaim(ref, hyp) ==
    CHOOSE c \in [1..Len(ref) -> 0..Len(hyp)] :
        \A k \in 1..Len(ref) :
            LET free == {j \in 1..Len(hyp) :
                            /\ SimilarMemo[ref[k], hyp[j]]
                            /\ \A i \in 1..(k - 1) : c[i] # j}
            IN c[k] = IF free = {} THEN 0 ELSE MinOfSet(free)

ScoreReturned == pc = "returned" /\ call.fn = "word_match_score"

C20_NormalizeIdempotent ==
    /\ (pc = "returned" /\ call.fn = "normalize_word") =>
            NormalizeWord(ret.value) = ret.value
    /\ (pc = "returned" /\ call.fn = "normalize_text") =>
            \A k \in 1..Len(ret.value) :
                /\ ret.value[k] # <<>>
                /\ NormalizeWord(ret.value[k]) = ret.value[k]

\* "'H '": the first word loses its apostrophe and its case, the second
\* word normalizes to nothing and is dropped
C20_Witness ==
    /\ pc = "returned"
    /\ call.fn = "normalize_text"
    /\ call.text = <<"'", "H", "SP", "'">>
    /\ ret.value = <<<<"h">>>>

\* the start positions j of the window [cursor, cursor + SEARCH_WINDOW) for
\* which tokens[j : j + n] exists
InWindow(n) ==
    {j \in cursor..(cursor + SEARCH_WINDOW - 1) : j + n <= Len(words)}

\* C21: in pass 1, for a line of n >= 1 words, every start position j with
\* cursor <= j < cursor + SEARCH_WINDOW for which tokens[j : j + n] exists is
\* examined: no such position scores higher than the score pass 1 records for
\* the line.
C21_WholeWindow ==
    [][pc = "pass1" =>
          LET ref_words == NormalizeText(dialogue[idx + 1].text)
              n == Len(ref_words)
          IN n >= 1 =>
                \A j \in InWindow(n) :
                    ~FracGT(WordMatchScore(ref_words, Hyp(words, j, n)),
                            results'[idx + 1].score)]_vars

\* the lowest of the positions of S that reach the best score over S
LowestBest(ref_words, S) ==
    LET score(j) == WordMatchScore(ref_words, Hyp(words, j, Len(ref_words)))
    IN MinOfSet({j \in S : \A k \in S : ~FracGT(score(k), score(j))})

\* C22: in pass 1 and in pass 2, the position committed for a line is the
\* lowest of the examined positions that reach the best score; the committed
\* span is therefore a function of the reference lines and the token stream.
C22_LowestIndexWins ==
    [][LET ref_words == NormalizeText(dialogue[idx + 1].text)
           n == Len(ref_words)
           range == IF pc = "pass1"
                    THEN Visited(n, cursor, Min(cursor + SEARCH_WINDOW, Len(words)))
                    ELSE Visited(n, PrevWordEnd(results, idx),
                                 NextWordStart(results, words, idx))
           committed == IF pc = "pass1" THEN results'[idx + 1].matched
                        ELSE ~results[idx + 1].matched /\ results'[idx + 1].matched
       IN (pc \in {"pass1", "pass2"} /\ committed) =>
             /\ results'[idx + 1].word_start_idx = LowestBest(ref_words, range)
             /\ results'[idx + 1].word_end_idx = LowestBest(ref_words, range) + n - 1]_vars

\* pass 2 committed a line (its span lies at or after the pass-1 cursor)
\* although the next position scores the same
C22_Witness ==
    /\ AfterPass2
    /\ \E k \in MatchedLines :
          LET ref_words == NormalizeText(results[k].text)
              n == Len(ref_words)
              j == results[k].word_start_idx
          IN /\ j >= cursor
             /\ j + 1 + n <= Len(words)
             /\ WordMatchScore(ref_words, Hyp(words, j + 1, n)) = results[k].score

\* C23: during pass 1 the cursor never decreases and never exceeds the token
\* count; it changes only when a line is committed, to one past the last
\* token of the committed span (j + n); a line below the threshold and a line
\* without normalized words leave it unchanged; a line without words is not
\* scored, and pass 2 leaves it unmatched.
C23_CursorMoves ==
    [][LET n == Len(NormalizeText(dialogue[idx + 1].text))
           r == results'[idx + 1]
       IN /\ pc = "pass1" =>
                /\ cursor <= cursor'
                /\ cursor' <= Len(words)
                /\ cursor' = IF r.matched THEN r.word_start_idx + n ELSE cursor
                /\ r.matched => r.word_start_idx >= cursor
                /\ n = 0 => ~r.matched /\ r.score = Frac(0, 1)
          /\ pc = "pass2" =>
                /\ cursor' = cursor
                /\ n = 0 => r = results[idx + 1] /\ ~r.matched]_vars

\* pass 2 is over: the first line was committed on two tokens and moved the
\* cursor past them, the second line has no words
C23_Witness ==
    /\ AfterPass2
    /\ Len(results) = 2
    /\ results[1].matched
    /\ results[1].word_end_idx = results[1].word_start_idx + 1
    /\ cursor = results[1].word_end_idx + 1
    /\ NormalizeText(results[2].text) = <<>>
    /\ ~results[2].matched

\* line k (1-based) and the next line are matched and overlap
Overlaps(res, k) ==
    /\ k < Len(res)
    /\ res[k].matched
    /\ res[k + 1].matched
    /\ res[k].end > res[k + 1].start

\* C24: fix_overlaps changes only the end time of a line i for which lines i
\* and i + 1 are both matched and end(i) > start(i + 1), and sets it to
\* max(start(i), start(i + 1) - 0.05); every start time, every unmatched line,
\* the order and the matched flags stay as they were, and the new end(i) is
\* not below start(i).
C24_FixOverlapsFrame ==
    [][pc = "aligned" =>
          /\ Len(results') = Len(results)
          /\ \A k \in 1..Len(results) :
                IF Overlaps(results, k)
                THEN /\ results'[k] =
                            [results[k] EXCEPT !.end = Max(results[k].start,
                                                           results[k + 1].start - Clearance)]
                     /\ results'[k].end >= results'[k].start
                ELSE results'[k] = results[k]]_vars

\* fix_overlaps has returned and a matched line no longer ends with its last
\* token: it was cut back to 0.05 s before the next line
C24_Witness ==
    /\ pc = "fixed"
    /\ \E k \in 1..(Len(results) - 1) :
          /\ results[k].matched
          /\ results[k + 1].matched
          /\ results[k].end # words[results[k].word_end_idx + 1].end
          /\ results[k].end = results[k + 1].start - Clearance
          /\ results[k].end > results[k].start

\* token w lies within [t_before - 1, t_after + 1] of the gap
NearGap(gap, w) == w.start >= gap.gap_start - Sec /\ w.end <= gap.gap_end + Sec

Tokens(ws) == {ws[k] : k \in 1..Len(ws)}

\* C25: a confirmed gap whose re-transcription returns no token, or no token
\* within [t_before - 1, t_after + 1], leaves the stream as it was before the
\* gap was processed; when no gap is confirmed the input stream is returned
\* unchanged; and every token the stream gains passed the
\* [t_before - 1, t_after + 1] filter.
C25_PatchFrame ==
    [][/\ (pc = "afg_detect" /\ gaps_to_fill' = <<>>) =>
              (pc' = "afg_returned" /\ improved' = words)
       /\ (pc = "afg_patch" /\ pc' # "raised") =>
              LET gap == gaps_to_fill[idx + 1]
              IN /\ (\A w \in Tokens(patch_words') : ~NearGap(gap, w)) =>
                        improved' = improved
                 /\ \A w \in Tokens(improved') \ Tokens(improved) :
                        w \in Tokens(patch_words') /\ NearGap(gap, w)]_vars

\* the stream returned still holds a token inside a gap whose transcription
\* gave only a token outside the filter
C25_Witness ==
    /\ pc = "afg_returned"
    /\ Len(gaps_to_fill) = 1
    /\ patch_words # <<>>
    /\ \A w \in Tokens(patch_words) : ~NearGap(gaps_to_fill[1], w)
    /\ \E w \in Tokens(improved) :
          w.start >= gaps_to_fill[1].gap_start /\ w.end <= gaps_to_fill[1].gap_end
    /\ improved = words

\* what the claim compares of a line: matched flag, score and token span
Outcome(r) == <<r.matched, r.score, r.word_start_idx, r.word_end_idx>>

\* pass 1 of align() has just ended
EndOfPass1 == pc = "pass2" /\ idx = 0

\* C26: _quick_greedy_align gives every line the matched flag, the score and
\* the token span that align() holds for the line at the end of its pass 1.
C26_ProbeIsPass1 ==
    EndOfPass1 =>
        LET prelim == QuickGreedyAlign(words, dialogue)
        IN /\ Len(prelim) = Len(results)
           /\ \A k \in 1..Len(results) : Outcome(prelim[k]) = Outcome(results[k])

\* the end of pass 1 on a stream longer than the search window, with a
\* matched line followed by a line the window left unmatched
C26_Witness ==
    /\ EndOfPass1
    /\ Len(words) > SEARCH_WINDOW
    /\ Len(results) = 2
    /\ results[1].matched
    /\ ~results[2].matched
    /\ NormalizeText(results[2].text) # <<>>

\* C27: fmt_time renders every non-negative time with minutes in 00..59 and
\* a seconds field in 00.00..59.99; no input gives a seconds field of 60.00.
C27_SecondsBelowSixty ==
    (pc = "returned" /\ call.fn = "fmt_time") =>
        /\ ret.value.h >= 0
        /\ ret.value.m \in 0..59
        /\ ret.value.cs \in 0..5999

\* C28: pass 2 never commits a line that is followed by a matched line: every
\* start position it examines for such a line lies among those pass 1
\* examined from the same cursor, and scores below the threshold; pass 2
\* changes only the line it is at, and only when no matched line follows it.
C28_Pass2OnlyTrailing ==
    [][pc = "pass2" =>
          LET ref_words == NormalizeText(results[idx + 1].text)
              n == Len(ref_words)
              prev == PrevWordEnd(results, idx)
              next == NextWordStart(results, words, idx)
              followed == \E j \in (idx + 2)..Len(results) : results[j].matched
          IN /\ \A k \in 1..Len(results) :
                    results'[k] # results[k] => (k = idx + 1 /\ ~followed)
             /\ (followed /\ ~results[idx + 1].matched /\ n >= 1 /\ prev < next) =>
                    /\ Visited(n, prev, next)
                          \subseteq Visited(n, prev, Min(prev + SEARCH_WINDOW, Len(words)))
                    /\ \A j \in Visited(n, prev, next) :
                          ~AtThreshold(WordMatchScore(ref_words, Hyp(words, j, n)))]_vars

\* pass 2 is over: "there" is still unmatched in front of a line matched at
\* token 1, although the stream holds "there" past that line
C28_Witness ==
    /\ AfterPass2
    /\ words = LongExampleStream
    /\ Len(results) = 2
    /\ NormalizeText(results[1].text) = <<there>>
    /\ ~results[1].matched
    /\ results[2].matched
    /\ results[2].word_start_idx = 1

\* pass 1 is over, or pass 2 is over
EndOfPass == (pc = "pass2" /\ idx = 0) \/ pc = "pass3"

\* C29: at the end of pass 1 and at the end of pass 2, a matched line has
\* 0 <= word_start_idx <= word_end_idx < token count, spans as many tokens as
\* it has normalized words, starts with its first token and ends with its
\* last; an unmatched line has word_start_idx = word_end_idx = -1.
C29_SpanShape ==
    EndOfPass =>
        \A k \in 1..Len(results) :
            LET r == results[k]
            IN IF r.matched
               THEN /\ 0 <= r.word_start_idx
                    /\ r.word_start_idx <= r.word_end_idx
                    /\ r.word_end_idx < Len(words)
                    /\ r.word_end_idx - r.word_start_idx + 1 = Len(NormalizeText(r.text))
                    /\ r.start = words[r.word_start_idx + 1].start
                    /\ r.end = words[r.word_end_idx + 1].end
               ELSE r.word_start_idx = -1 /\ r.word_end_idx = -1

\* the end of pass 2 with a line committed by pass 1 (its span lies before
\* the cursor) and a line committed by pass 2 (its span lies past the cursor)
C29_Witness ==
    /\ pc = "pass3"
    /\ \E i, j \in MatchedLines :
          /\ results[i].word_end_idx < cursor
          /\ results[j].word_start_idx >= cursor

\* C30: in align_with_llm the cursor satisfies 0 <= cursor <= n_words after
\* every batch and never decreases from one batch to the next, whatever the
\* collaborator returns; the window start max(0, cursor - 20) of every batch
\* is a position of the stream.
C30_LlmCursorBounds ==
    [][pc = "llm_batch" =>
          /\ cursor <= cursor'
          /\ 0 <= cursor'
          /\ cursor' <= Len(words)
          /\ prompt'.win_start = Max(0, cursor - BackContext)
          /\ prompt'.win_start <= prompt'.win_end
          /\ prompt'.win_end <= Len(words)]_vars

\* a batch was shown a window that starts past token 0, the collaborator
\* answered a span before the window and the cursor, the line was matched to
\* it and the cursor stayed at the end of the stream
C30_Witness ==
    /\ pc \in {"llm_batch", "llm_interpolate"}
    /\ prompt.win_start > 0
    /\ cursor = Len(words)
    /\ mapping.kind = "object"
    /\ \E k \in 1..Len(prompt.lines) :
          /\ mapping.entries[k].kind = "span"
          /\ mapping.entries[k].w_end < prompt.win_start
          /\ results[prompt.lines[k] + 1].matched

=============================================================================
